---- MODULE Spec2Model ----
(***************************************************************************)
(* Model of rigging's DeploymentControl (deployment.go): Upsert, Delete    *)
(* and Status of one deployment against a Kubernetes control plane, with   *)
(* collectPods resolving the pods created by the live deployment.          *)
(*                                                                         *)
(* Every remote call (Get, Create, Update, Delete of the deployment, List  *)
(* and Delete of pods) and the sleep between two Status attempts is one    *)
(* step; the control plane moves between the steps.                        *)
(***************************************************************************)
EXTENDS Integers, Sequences, FiniteSets, TLC

VARIABLES
    live,       \* the deployment as the control plane holds it
    pods,       \* the pods of the control plane, in list order
    nextUid,    \* the next UID the control plane assigns
    nextPod,    \* the next pod name the control plane assigns
    desc,       \* c.deployment: the controller's in-memory descriptor
    pc,         \* the controller's position
    op,         \* the operation in progress or last finished
    cascade,    \* Delete's cascade argument
    cur,        \* currentDeployment, as the last Get returned it
    curPods,    \* currentPods / pods, as collectPods last returned them
    idx,        \* Delete's position in currentPods
    retryAttempts, \* Status: the attempt budget after defaulting
    retryPeriod,   \* Status: the period after defaulting
    attempts,   \* retry: the number of invocations of the action so far
    tried,      \* retry: what each invocation returned, in order
    cancelled,  \* ctx.Done() is closed
    result,     \* what the operation returned
    calls,      \* history: the remote calls the operation issued, in order
    given,      \* history: c.deployment as the operation found it
    prevLeft,   \* history: the pods the operation before left undeleted
    twin,       \* the same call with the other arguments, given the same answers
    other       \* a second controller of the same deployment name

vars == <<live, pods, nextUid, nextPod, desc, pc, op, cascade, cur, curPods,
          idx, retryAttempts, retryPeriod, attempts, tried, cancelled,
          result, calls, given, prevLeft, twin, other>>

----------------------------------------------------------------------------
(* Bounds *)

MaxUid == 2
MaxPods == 2
MaxReplicas == 2
MaxAttempts == 3
MaxPeriod == 2
MaxListed == 2

(* Program constants *)

KindDeployment == "Deployment"
DefaultRetryAttempts == 2
DefaultRetryPeriod == 1
DefaultNamespace == "default"

Kinds == {KindDeployment, "ReplicaSet"}
Namespaces == {DefaultNamespace, "other"}
Labels == {"a", "b"}
PodRunning == "Running"

----------------------------------------------------------------------------
(* Errors.  A nil error has kind "nil".  The API client returns status     *)
(* errors (by HTTP code); trace errors carry their own kind.               *)

NoErr == [kind |-> "nil", what |-> "", x |-> 0, y |-> 0, ph |-> ""]
Err(k) == [kind |-> k, what |-> "", x |-> 0, y |-> 0, ph |-> ""]
StatusNotFound == Err("Status404")
StatusConflict == Err("Status409")
StatusOther == Err("Status500")

ReplicasMismatch(replicas, updated) ==
    [kind |-> "CompareFailed", what |-> "replicas", x |-> replicas,
     y |-> updated, ph |-> ""]

PodMismatch(pod) ==
    [kind |-> "CompareFailed", what |-> "pod", x |-> pod.name, y |-> 0,
     ph |-> pod.phase]

IsNil(e) == e.kind = "nil"

convertErr(e) ==
    IF IsNil(e) THEN e
    ELSE IF e.kind = "Status409" THEN Err("AlreadyExists")
    ELSE IF e.kind = "Status404" THEN Err("NotFound")
    ELSE e

IsNotFound(e) == e.kind = "NotFound"

Wrap(e) == e

----------------------------------------------------------------------------
(* Pods and ownership references.                                          *)
(* createdBy is the value of the pod's created-by annotation: <<>> when    *)
(* the annotation is absent, else <<text>>; text decodes to a serialized   *)
(* reference exactly when it is well-formed.                               *)

Annotations ==
    [valid : {TRUE}, kind : Kinds, uid : 1..MaxUid]
        \cup [valid : {FALSE}, kind : {KindDeployment}, uid : {1}]
CreatedBys == {<<>>} \cup {<<a>> : a \in Annotations}

ParseSerializedReference(text) ==
    IF text.valid
    THEN [err |-> FALSE, kind |-> text.kind, uid |-> text.uid]
    ELSE [err |-> TRUE, kind |-> "", uid |-> 0]

(* labels.Set.AsSelector over Spec.Selector.MatchLabels: a nil selector or *)
(* an empty label set selects everything.                                  *)
Selectors == {<<>>} \cup {<<l>> : l \in Labels}
SelectorMatches(selector, pod) ==
    selector = <<>> \/ pod.label = selector[1]

(* Pods(namespace).List(LabelSelector) *)
ListPods(namespace, selector, all) ==
    SelectSeq(all, LAMBDA p : p.ns = namespace /\ SelectorMatches(selector, p))

(* faulty variant: the kind of the reference is not compared *)
CreatedByThisAnyKind(pod, deployment) ==
    IF pod.createdBy = <<>> THEN FALSE
    ELSE LET ref == ParseSerializedReference(pod.createdBy[1])
         IN  IF ref.err THEN FALSE
             ELSE ref.uid = deployment.uid

CreatedByThis(pod, deployment) ==
    IF pod.createdBy = <<>> THEN FALSE
    ELSE LET ref == ParseSerializedReference(pod.createdBy[1])
         IN  IF ref.err THEN FALSE
             ELSE ref.kind = KindDeployment /\ ref.uid = deployment.uid

(* the loop over podList.Items, appending to currentPods *)
RECURSIVE CurrentPods(_, _, _)
CurrentPods(items, deployment, currentPods) ==
    IF items = <<>> THEN currentPods
    ELSE CurrentPods(Tail(items), deployment,
                     IF CreatedByThis(Head(items), deployment)
                     THEN Append(currentPods, Head(items))
                     ELSE currentPods)

(* collectPods, given a List call that succeeded *)
collectPods(selector, deployment, all) ==
    CurrentPods(ListPods(deployment.ns, selector, all), deployment, <<>>)

----------------------------------------------------------------------------
(* The deployment, as the control plane holds it and as Get returns it.    *)
(* replicas is <<>> for a nil Spec.Replicas, else <<n>>; doc is the        *)
(* controller whose document the control plane holds (0: an earlier one).  *)

ReplicaSpecs == {<<>>} \cup {<<n>> : n \in 0..MaxReplicas}
NoDeployment ==
    [present |-> FALSE, ns |-> "", uid |-> 0, replicas |-> <<>>, updated |-> 0,
     doc |-> 0]

(* faulty variant: a nil Spec.Replicas counts as 0 *)
ExpectedReplicasNoDefault(deployment) ==
    IF deployment.replicas # <<>> THEN deployment.replicas[1] ELSE 0

ExpectedReplicas(deployment) ==
    IF deployment.replicas # <<>> THEN deployment.replicas[1] ELSE 1

Call(name, err, doc, pod) ==
    [call |-> name, ok |-> IsNil(err), err |-> err.kind, doc |-> doc,
     pod |-> pod, uid |-> live.uid]

Submitted(d) ==
    <<[uid |-> d.uid, selfLink |-> d.selfLink,
       resourceVersion |-> d.resourceVersion]>>

(* Deployments(ns).Get(name): what the API can answer in this state *)
GetErrs == IF live.present THEN {NoErr, StatusOther}
           ELSE {StatusNotFound, StatusOther}
CreateErrs == IF live.present THEN {StatusConflict, StatusOther}
              ELSE IF nextUid <= MaxUid THEN {NoErr, StatusOther}
              ELSE {StatusOther}
UpdateErrs == IF live.present THEN {NoErr, StatusOther}
              ELSE {StatusNotFound, StatusOther}
DeleteErrs == IF live.present THEN {NoErr, StatusOther}
              ELSE {StatusNotFound, StatusOther}
ListErrs == {NoErr, StatusOther}
HasPod(name) == \E i \in 1..Len(pods) : pods[i].name = name /\ pods[i].ns = desc.ns
DeletePodErrs(name) == IF HasPod(name) THEN {NoErr, StatusOther}
                       ELSE {StatusNotFound, StatusOther}

RemovePod(name) ==
    SelectSeq(pods, LAMBDA p : ~(p.name = name /\ p.ns = desc.ns))

----------------------------------------------------------------------------
(* The controller, after NewDeploymentControl.                             *)

Descriptors ==
    [ns : {DefaultNamespace}, uid : 0..1, selfLink : {"", "link"},
     resourceVersion : {"", "rv"}, selector : {<<"a">>},
     replicas : ReplicaSpecs]

(* A second run of the operation in progress, called with other arguments  *)
(* and receiving the same answers from the control plane: for Delete the   *)
(* other value of cascade, for Status the defaults passed explicitly where *)
(* the call passed zero.  n and d are the arguments as the caller passed   *)
(* them.                                                                   *)
TwinIdle ==
    [pc |-> "idle", cascade |-> FALSE, idx |-> 0, result |-> NoErr,
     calls |-> <<>>, n |-> 0, d |-> 0, times |-> 0, period |-> 0,
     attempts |-> 0, tried |-> <<>>]

(* The second controller: its position, what its Upsert returned, the      *)
(* remote calls it issued, and whether its create or update was issued     *)
(* after the first controller's.                                           *)
OtherIdle == [pc |-> "idle", result |-> NoErr, calls |-> <<>>, late |-> FALSE]

CtlInit ==
    /\ pc = "idle"
    /\ op = ""
    /\ cascade = FALSE
    /\ cur = NoDeployment
    /\ curPods = <<>>
    /\ idx = 0
    /\ retryAttempts = 0
    /\ retryPeriod = 0
    /\ attempts = 0
    /\ tried = <<>>
    /\ cancelled = FALSE
    /\ result = NoErr
    /\ calls = <<>>
    /\ given = desc
    /\ prevLeft = {}
    /\ twin = TwinIdle
    /\ other = OtherIdle

Init ==
    /\ live = NoDeployment
    /\ pods = <<>>
    /\ nextUid = 1
    /\ nextPod = 1
    /\ desc \in Descriptors
    /\ CtlInit

(* what the finished operation left behind: the resolved pods a Delete    *)
(* that stopped at a failed pod deletion did not get to                    *)
LeftOver ==
    IF /\ op = "Delete"
       /\ pc = "done"
       /\ calls # <<>>
       /\ calls[Len(calls)].call = "deletePod"
       /\ ~calls[Len(calls)].ok
    THEN {curPods[k].name : k \in idx..Len(curPods)}
    ELSE {}

Begin ==
    /\ pc \in {"idle", "done"}
    /\ given' = desc
    /\ prevLeft' = LeftOver
    /\ other' = other

NoRetry ==
    /\ retryAttempts' = 0
    /\ retryPeriod' = 0
    /\ attempts' = 0
    /\ tried' = <<>>
    /\ cancelled' = FALSE

NoDelete ==
    /\ cascade' = FALSE
    /\ idx' = 0

RetryVars == <<retryAttempts, retryPeriod, attempts, tried, cancelled>>
HistVars == <<given, prevLeft, other>>
PlaneVars == <<live, pods, nextUid, nextPod>>

----------------------------------------------------------------------------
(* Upsert *)

(* faulty variant: ResourceVersion is left as it was *)
ClearedDescKeepsVersion(d) ==
    [d EXCEPT !.uid = 0, !.selfLink = ""]

ClearedDesc(d) ==
    [d EXCEPT !.uid = 0, !.selfLink = "", !.resourceVersion = ""]

(* faulty variant: the document is updated whether or not it exists *)
UpsertNextNoCreate(err) ==
    IF ~IsNil(err) /\ ~IsNotFound(err) THEN "done" ELSE "upsertUpdate"

(* faulty variant: every failed Get counts as not found *)
UpsertNextAnyErrorCreates(err) ==
    IF ~IsNil(err) THEN "upsertCreate" ELSE "upsertUpdate"

(* faulty variant: Create and Update change places *)
UpsertNextSwapped(err) ==
    IF ~IsNil(err)
    THEN IF ~IsNotFound(err) THEN "done" ELSE "upsertUpdate"
    ELSE "upsertCreate"

UpsertNext(err) ==
    IF ~IsNil(err)
    THEN IF ~IsNotFound(err) THEN "done" ELSE "upsertCreate"
    ELSE "upsertUpdate"

UpsertGet ==
    /\ Begin
    /\ op' = "Upsert"
    /\ desc' = ClearedDesc(desc)
    /\ twin' = TwinIdle
    /\ cur' = NoDeployment
    /\ curPods' = <<>>
    /\ NoRetry
    /\ NoDelete
    /\ \E e \in GetErrs :
        LET err == convertErr(e) IN
        /\ calls' = <<Call("get", e, <<>>, 0)>>
        /\ pc' = UpsertNext(err)
        /\ result' = IF UpsertNext(err) = "done" THEN Wrap(err) ELSE NoErr
    /\ UNCHANGED PlaneVars

UpsertCreate ==
    /\ pc = "upsertCreate"
    /\ \E e \in CreateErrs :
        /\ calls' = Append(calls, Call("create", e, Submitted(desc), 0))
        /\ result' = convertErr(e)
        /\ IF IsNil(e)
           THEN /\ live' = [present |-> TRUE, ns |-> desc.ns, uid |-> nextUid,
                            replicas |-> desc.replicas, updated |-> 0,
                            doc |-> 1]
                /\ nextUid' = nextUid + 1
           ELSE UNCHANGED <<live, nextUid>>
    /\ pc' = "done"
    /\ UNCHANGED <<pods, nextPod, desc, op, cascade, cur, curPods, idx, twin>>
    /\ UNCHANGED RetryVars
    /\ UNCHANGED HistVars

UpsertUpdate ==
    /\ pc = "upsertUpdate"
    /\ \E e \in UpdateErrs :
        /\ calls' = Append(calls, Call("update", e, Submitted(desc), 0))
        /\ result' = convertErr(e)
        /\ IF IsNil(e)
           THEN live' = [live EXCEPT !.replicas = desc.replicas, !.doc = 1]
           ELSE UNCHANGED live
    /\ pc' = "done"
    /\ UNCHANGED <<pods, nextUid, nextPod, desc, op, cascade, cur, curPods, idx,
                   twin>>
    /\ UNCHANGED RetryVars
    /\ UNCHANGED HistVars

----------------------------------------------------------------------------
(* Delete *)

(* faulty variant: the deployment is deleted before its pods are resolved *)
DeleteNextResourceFirst(at, found) ==
    CASE at = "deleteGet" -> "deleteResource"
      [] at = "deleteResource" -> "deleteList"
      [] at = "deleteList" ->
            IF found = <<>> THEN "done" ELSE "deletePods"
      [] OTHER -> "done"

(* faulty variant: the deployment itself is never deleted *)
DeleteNextSkipsResource(at, found) ==
    CASE at = "deleteGet" -> "deleteList"
      [] at = "deleteList" ->
            IF found = <<>> THEN "done" ELSE "deletePods"
      [] OTHER -> "done"

(* The order of Delete's remote calls: the position after the call at      *)
(* position at succeeded, found being the pods collectPods resolved.       *)
DeleteNext(at, found) ==
    CASE at = "deleteGet" -> "deleteList"
      [] at = "deleteList" -> "deleteResource"
      [] at = "deleteResource" ->
            IF found = <<>> THEN "done" ELSE "deletePods"
      [] OTHER -> "done"

(* faulty variant: the loop goes on after a failed pod deletion *)
PodLoopContinues(e, i, n) ==
    IF i < n THEN [pc |-> "deletePods", idx |-> i + 1, result |-> NoErr]
    ELSE [pc |-> "done", idx |-> i + 1, result |-> Wrap(e)]

(* The loop over currentPods, after the Delete of pod i of n returned e *)
PodLoop(e, i, n) ==
    IF ~IsNil(e) THEN [pc |-> "done", idx |-> i, result |-> Wrap(e)]
    ELSE IF i < n THEN [pc |-> "deletePods", idx |-> i + 1, result |-> NoErr]
    ELSE [pc |-> "done", idx |-> i + 1, result |-> NoErr]

(* faulty variant: an error of a remote call is not looked at *)
DeleteFailsNever(e) == FALSE

(* err != nil after a remote call of Delete *)
DeleteFails(e) == ~IsNil(e)

(* faulty variant: the pods are deleted only when cascade is set *)
PodsToDeleteGated(casc, found) == IF casc THEN found ELSE <<>>

(* The pods Delete goes on to delete once the deployment is deleted: when  *)
(* cascade is not set a line is logged, and the loop runs all the same.    *)
PodsToDelete(casc, found) == found

TwinCall(name, e, pod) == [call |-> name, ok |-> IsNil(e), pod |-> pod]

(* The twin's Delete, at the position at, on the answer e of the call and  *)
(* the pods collectPods resolves; it stays where it is once it returned.   *)
DeleteTwin(t, at, e, found) ==
    IF t.pc # at THEN t
    ELSE CASE at = "deleteGet" ->
                [t EXCEPT !.calls = Append(@, TwinCall("get", e, 0)),
                          !.pc = IF DeleteFails(e) THEN "done"
                                 ELSE DeleteNext(at, <<>>),
                          !.result = IF DeleteFails(e) THEN Wrap(e) ELSE NoErr]
           [] at = "deleteList" ->
                [t EXCEPT !.calls = Append(@, TwinCall("list", e, 0)),
                          !.pc = IF DeleteFails(e) THEN "done"
                                 ELSE DeleteNext(at, found),
                          !.result = IF DeleteFails(e) THEN Wrap(Wrap(e))
                                     ELSE NoErr]
           [] at = "deleteResource" ->
                [t EXCEPT !.calls = Append(@, TwinCall("delete", e, 0)),
                          !.pc = IF DeleteFails(e) THEN "done"
                                 ELSE DeleteNext(at,
                                        PodsToDelete(t.cascade, found)),
                          !.idx = IF DeleteFails(e) THEN @ ELSE 1,
                          !.result = IF DeleteFails(e) THEN Wrap(e) ELSE NoErr]
           [] OTHER ->
                LET list == PodsToDelete(t.cascade, found)
                    after == PodLoop(e, t.idx, Len(list))
                IN  [t EXCEPT !.calls = Append(@, TwinCall("deletePod", e,
                                                      list[t.idx].name)),
                              !.pc = after.pc,
                              !.idx = after.idx,
                              !.result = after.result]

DeleteGet ==
    /\ Begin
    /\ op' = "Delete"
    /\ idx' = 0
    /\ curPods' = <<>>
    /\ NoRetry
    /\ \E b \in BOOLEAN, e \in GetErrs :
        /\ cascade' = b
        /\ calls' = <<Call("get", e, <<>>, 0)>>
        /\ twin' = DeleteTwin([TwinIdle EXCEPT !.pc = "deleteGet",
                                              !.cascade = ~b],
                              "deleteGet", e, <<>>)
        /\ cur' = IF IsNil(e) THEN live ELSE NoDeployment
        /\ IF DeleteFails(e)
           THEN pc' = "done" /\ result' = Wrap(e)
           ELSE pc' = DeleteNext("deleteGet", <<>>) /\ result' = NoErr
    /\ UNCHANGED PlaneVars
    /\ UNCHANGED desc

DeleteList ==
    /\ pc = "deleteList"
    /\ \E e \in ListErrs :
        /\ calls' = Append(calls, Call("list", e, <<>>, 0))
        /\ curPods' = IF IsNil(e) THEN collectPods(desc.selector, cur, pods)
                       ELSE <<>>
        /\ twin' = DeleteTwin(twin, "deleteList", e, curPods')
        /\ IF DeleteFails(e)
           THEN pc' = "done" /\ result' = Wrap(Wrap(e))
           ELSE pc' = DeleteNext("deleteList", curPods') /\ result' = NoErr
    /\ UNCHANGED PlaneVars
    /\ UNCHANGED <<desc, op, cascade, cur, idx>>
    /\ UNCHANGED RetryVars
    /\ UNCHANGED HistVars

DeleteResource ==
    /\ pc = "deleteResource"
    /\ \E e \in DeleteErrs :
        /\ calls' = Append(calls, Call("delete", e, <<>>, 0))
        /\ twin' = DeleteTwin(twin, "deleteResource", e, curPods)
        /\ live' = IF IsNil(e) THEN NoDeployment ELSE live
        /\ IF DeleteFails(e)
           THEN pc' = "done" /\ result' = Wrap(e) /\ idx' = idx
           ELSE /\ idx' = 1
                /\ result' = NoErr
                /\ pc' = DeleteNext("deleteResource",
                                    PodsToDelete(cascade, curPods))
    /\ UNCHANGED <<pods, nextUid, nextPod, desc, op, cascade, cur, curPods>>
    /\ UNCHANGED RetryVars
    /\ UNCHANGED HistVars

DeletePod ==
    /\ pc = "deletePods"
    /\ idx <= Len(PodsToDelete(cascade, curPods))
    /\ LET list == PodsToDelete(cascade, curPods)
           pod == list[idx]
       IN
       \E e \in DeletePodErrs(pod.name) :
        LET after == PodLoop(e, idx, Len(list)) IN
        /\ calls' = Append(calls, Call("deletePod", e, <<>>, pod.name))
        /\ twin' = DeleteTwin(twin, "deletePods", e, curPods)
        /\ pods' = IF IsNil(e) THEN RemovePod(pod.name) ELSE pods
        /\ pc' = after.pc
        /\ idx' = after.idx
        /\ result' = after.result
    /\ UNCHANGED <<live, nextUid, nextPod, desc, op, cascade, cur, curPods>>
    /\ UNCHANGED RetryVars
    /\ UNCHANGED HistVars

----------------------------------------------------------------------------
(* retry(ctx, times, period, fn): fn is invoked up to times times; ctx is  *)
(* looked at before every invocation after the first.                      *)

Cancelled == Err("Cancelled")

(* faulty variant: one invocation more than the budget *)
retryAfterOneMore(r, n, times) ==
    IF IsNil(r) THEN [pc |-> "done", result |-> NoErr]
    ELSE IF n > times THEN [pc |-> "done", result |-> r]
    ELSE [pc |-> "sleep", result |-> NoErr]

(* after the n-th invocation returned r *)
retryAfter(r, n, times) ==
    IF IsNil(r) THEN [pc |-> "done", result |-> NoErr]
    ELSE IF n >= times THEN [pc |-> "done", result |-> r]
    ELSE [pc |-> "sleep", result |-> NoErr]

(* faulty variant: ctx is not looked at between attempts *)
retryWakeIgnoresCtx(ctxDone) ==
    [pc |-> "statusGet", result |-> NoErr]

(* after the sleep, before the next invocation *)
retryWake(ctxDone) ==
    IF ctxDone THEN [pc |-> "done", result |-> Cancelled]
    ELSE [pc |-> "statusGet", result |-> NoErr]

----------------------------------------------------------------------------
(* Status *)

(* faulty variant: a zero budget is passed on as it is *)
EffectiveAttemptsNoDefault(n) == n

EffectiveAttempts(n) == IF n = 0 THEN DefaultRetryAttempts ELSE n
EffectivePeriod(d) == IF d = 0 THEN DefaultRetryPeriod ELSE d

(* faulty variant: only the first pod is looked at *)
PodsRunningFirstOnly(list) ==
    IF list = <<>> THEN NoErr
    ELSE IF Head(list).phase # PodRunning THEN PodMismatch(Head(list))
    ELSE NoErr

(* faulty variant: an empty list of pods is a mismatch *)
RECURSIVE PodsRunningNeedsOne(_)
PodsRunningNeedsOne(list) ==
    IF list = <<>> THEN ReplicasMismatch(1, 0)
    ELSE IF Head(list).phase # PodRunning THEN PodMismatch(Head(list))
    ELSE IF Tail(list) = <<>> THEN NoErr
    ELSE PodsRunningNeedsOne(Tail(list))

(* the first pod of the list that is not running, as an error; nil if none *)
RECURSIVE PodsRunning(_)
PodsRunning(list) ==
    IF list = <<>> THEN NoErr
    ELSE IF Head(list).phase # PodRunning THEN PodMismatch(Head(list))
    ELSE PodsRunning(Tail(list))

(* The twin's Status is called with the defaults written out where the    *)
(* call passed zero.                                                       *)
StatusTwinStart(n, d) ==
    [TwinIdle EXCEPT
        !.pc = "statusGet", !.n = n, !.d = d,
        !.times = EffectiveAttempts(IF n = 0 THEN DefaultRetryAttempts ELSE n),
        !.period = EffectivePeriod(IF d = 0 THEN DefaultRetryPeriod ELSE d)]

(* The twin's retry at the position at: after an invocation returned r     *)
(* (half: the Get half passed and the List half follows), or after the     *)
(* sleep; it stays where it is once it returned.                           *)
StatusTwin(t, at, r, half, ctxDone) ==
    IF t.pc # at THEN t
    ELSE CASE at = "sleep" ->
                [t EXCEPT !.pc = retryWake(ctxDone).pc,
                          !.result = retryWake(ctxDone).result]
           [] at = "statusGet" /\ half ->
                [t EXCEPT !.attempts = @ + 1, !.pc = "statusList"]
           [] at = "statusGet" /\ ~half ->
                [t EXCEPT !.attempts = @ + 1,
                          !.tried = Append(@, r),
                          !.pc = retryAfter(r, t.attempts + 1, t.times).pc,
                          !.result = retryAfter(r, t.attempts + 1,
                                                t.times).result]
           [] OTHER ->
                [t EXCEPT !.tried = Append(@, r),
                          !.pc = retryAfter(r, t.attempts, t.times).pc,
                          !.result = retryAfter(r, t.attempts, t.times).result]

(* The first half of one invocation of the closure: Get and the replica    *)
(* comparison.  n is the number of this invocation, log the calls so far,  *)
(* tw the twin before it.                                                  *)
StatusAttempt(n, times, log, sofar, tw) ==
    /\ attempts' = n
    /\ \E e \in GetErrs :
        /\ calls' = Append(log, Call("get", e, <<>>, 0))
        /\ IF ~IsNil(e)
           THEN LET r == Wrap(e) IN
                /\ cur' = NoDeployment
                /\ tried' = Append(sofar, r)
                /\ pc' = retryAfter(r, n, times).pc
                /\ result' = retryAfter(r, n, times).result
                /\ twin' = StatusTwin(tw, "statusGet", r, FALSE, FALSE)
           ELSE /\ cur' = live
                /\ IF live.updated # ExpectedReplicas(live)
                   THEN LET r == ReplicasMismatch(ExpectedReplicas(live),
                                                  live.updated) IN
                        /\ tried' = Append(sofar, r)
                        /\ pc' = retryAfter(r, n, times).pc
                        /\ result' = retryAfter(r, n, times).result
                        /\ twin' = StatusTwin(tw, "statusGet", r, FALSE, FALSE)
                   ELSE /\ tried' = sofar
                        /\ pc' = "statusList"
                        /\ result' = NoErr
                        /\ twin' = StatusTwin(tw, "statusGet", NoErr, TRUE,
                                              FALSE)
    /\ curPods' = <<>>
    /\ UNCHANGED PlaneVars
    /\ UNCHANGED desc

StatusStart ==
    /\ Begin
    /\ op' = "Status"
    /\ NoDelete
    /\ cancelled' = FALSE
    /\ \E n \in 0..MaxAttempts, d \in 0..MaxPeriod :
        /\ retryAttempts' = EffectiveAttempts(n)
        /\ retryPeriod' = EffectivePeriod(d)
        /\ StatusAttempt(1, EffectiveAttempts(n), <<>>, <<>>,
                         StatusTwinStart(n, d))

StatusGet ==
    /\ pc = "statusGet"
    /\ StatusAttempt(attempts + 1, retryAttempts, calls, tried, twin)
    /\ UNCHANGED <<op, cascade, idx, retryAttempts, retryPeriod, cancelled>>
    /\ UNCHANGED HistVars

(* The second half of the invocation: collectPods and the pod check *)
StatusListCheck ==
    /\ pc = "statusList"
    /\ \E e \in ListErrs :
        /\ calls' = Append(calls, Call("list", e, <<>>, 0))
        /\ LET found == IF IsNil(e) THEN collectPods(desc.selector, cur, pods)
                        ELSE <<>>
               r == IF IsNil(e) THEN PodsRunning(found) ELSE Wrap(Wrap(e))
           IN  /\ curPods' = found
               /\ tried' = Append(tried, r)
               /\ pc' = retryAfter(r, attempts, retryAttempts).pc
               /\ result' = retryAfter(r, attempts, retryAttempts).result
               /\ twin' = StatusTwin(twin, "statusList", r, FALSE, FALSE)
    /\ UNCHANGED <<desc, op, cascade, cur, idx, retryAttempts, retryPeriod,
                   attempts, cancelled>>
    /\ UNCHANGED HistVars

(* faulty variant: the pods found not running are deleted to be restarted *)
StatusListRestarts ==
    /\ StatusListCheck
    /\ pods' = SelectSeq(pods, LAMBDA p : p.phase = PodRunning)
    /\ UNCHANGED <<live, nextUid, nextPod>>

StatusList ==
    /\ StatusListCheck
    /\ UNCHANGED PlaneVars

Wake ==
    /\ pc = "sleep"
    /\ pc' = retryWake(cancelled).pc
    /\ result' = retryWake(cancelled).result
    /\ twin' = StatusTwin(twin, "sleep", NoErr, FALSE, cancelled)
    /\ UNCHANGED PlaneVars
    /\ UNCHANGED <<desc, op, cascade, cur, curPods, idx, retryAttempts,
                   retryPeriod, attempts, tried, cancelled, calls>>
    /\ UNCHANGED HistVars

----------------------------------------------------------------------------
(* The environment: the control plane reconciling the live deployment, and *)
(* the caller cancelling ctx.                                              *)

CtlVars == <<desc, pc, op, cascade, cur, curPods, idx, retryAttempts,
             retryPeriod, attempts, tried, result, calls, given, prevLeft,
             twin, other>>

SpawnedPod ==
    [name |-> nextPod, ns |-> live.ns, label |-> "a",
     createdBy |-> <<[valid |-> TRUE, kind |-> KindDeployment,
                      uid |-> live.uid]>>,
     phase |-> "Pending"]

EnvSpawn ==
    /\ live.present
    /\ nextPod <= MaxPods
    /\ pods' = Append(pods, SpawnedPod)
    /\ nextPod' = nextPod + 1
    /\ UNCHANGED <<live, nextUid, cancelled>>
    /\ UNCHANGED CtlVars

EnvPodRunning ==
    /\ \E i \in 1..Len(pods) :
        /\ pods[i].phase = "Pending"
        /\ pods' = [pods EXCEPT ![i].phase = PodRunning]
    /\ UNCHANGED <<live, nextUid, nextPod, cancelled>>
    /\ UNCHANGED CtlVars

EnvProgress ==
    /\ live.present
    /\ live.updated < ExpectedReplicas(live)
    /\ live' = [live EXCEPT !.updated = live.updated + 1]
    /\ UNCHANGED <<pods, nextUid, nextPod, cancelled>>
    /\ UNCHANGED CtlVars

Cancel ==
    /\ pc \in {"statusList", "sleep"}
    /\ ~cancelled
    /\ cancelled' = TRUE
    /\ UNCHANGED PlaneVars
    /\ UNCHANGED CtlVars

----------------------------------------------------------------------------

Next ==
    \/ UpsertGet
    \/ UpsertCreate
    \/ UpsertUpdate
    \/ DeleteGet
    \/ DeleteList
    \/ DeleteResource
    \/ DeletePod
    \/ StatusStart
    \/ StatusGet
    \/ StatusList
    \/ Wake
    \/ EnvSpawn
    \/ EnvPodRunning
    \/ EnvProgress
    \/ Cancel

Spec == Init /\ [][Next]_vars

(* The calling goroutine keeps running: a remote call of Status returns    *)
(* and the timer of retry's sleep fires.                                   *)
FairSpec ==
    /\ Spec
    /\ WF_vars(StatusGet)
    /\ WF_vars(StatusList)
    /\ WF_vars(Wake)

----------------------------------------------------------------------------
(* Ownership resolution on its own: Delete's Get and collectPods against a *)
(* live deployment and any pods the namespaces may hold.                   *)

PodShapes ==
    [ns : Namespaces, label : Labels, createdBy : CreatedBys,
     phase : {PodRunning}]

PodLists ==
    UNION {{[i \in 1..n |->
                [name |-> i, ns |-> f[i].ns, label |-> f[i].label,
                 createdBy |-> f[i].createdBy, phase |-> f[i].phase]] :
            f \in [1..n -> PodShapes]} : n \in 0..MaxListed}

InitResolve ==
    /\ live = [present |-> TRUE, ns |-> DefaultNamespace, uid |-> 1,
                replicas |-> <<1>>, updated |-> 0, doc |-> 1]
    /\ pods \in PodLists
    /\ nextUid = 2
    /\ nextPod = Len(pods) + 1
    /\ desc \in [ns : {DefaultNamespace}, uid : {0}, selfLink : {""},
                  resourceVersion : {""}, selector : Selectors,
                  replicas : {<<1>>}]
    /\ CtlInit

NextResolve ==
    \/ DeleteGet
    \/ DeleteList

SpecResolve == InitResolve /\ [][NextResolve]_vars

----------------------------------------------------------------------------
(* Two controllers of the same deployment name, each calling Upsert once   *)
(* with its own document; their remote calls interleave.                   *)

OtherReplicas == <<1>>

OtherCall(name, e) == [call |-> name, ok |-> IsNil(e), err |-> e.kind]

OtherVars == <<desc, pc, op, cascade, cur, curPods, idx, retryAttempts,
               retryPeriod, attempts, tried, cancelled, result, calls, given,
               prevLeft, twin>>

OtherGet ==
    /\ other.pc = "idle"
    /\ \E e \in GetErrs :
        LET err == convertErr(e) IN
        other' = [other EXCEPT
                    !.calls = <<OtherCall("get", e)>>,
                    !.pc = UpsertNext(err),
                    !.result = IF UpsertNext(err) = "done" THEN Wrap(err)
                               ELSE NoErr]
    /\ UNCHANGED PlaneVars
    /\ UNCHANGED OtherVars

OtherCreate ==
    /\ other.pc = "upsertCreate"
    /\ \E e \in CreateErrs :
        /\ other' = [other EXCEPT
                      !.calls = Append(@, OtherCall("create", e)),
                      !.pc = "done",
                      !.result = convertErr(e),
                      !.late = (Len(calls) = 2)]
        /\ IF IsNil(e)
           THEN /\ live' = [present |-> TRUE, ns |-> desc.ns, uid |-> nextUid,
                            replicas |-> OtherReplicas, updated |-> 0,
                            doc |-> 2]
                /\ nextUid' = nextUid + 1
           ELSE UNCHANGED <<live, nextUid>>
    /\ UNCHANGED <<pods, nextPod>>
    /\ UNCHANGED OtherVars

OtherUpdate ==
    /\ other.pc = "upsertUpdate"
    /\ \E e \in UpdateErrs :
        /\ other' = [other EXCEPT
                      !.calls = Append(@, OtherCall("update", e)),
                      !.pc = "done",
                      !.result = convertErr(e),
                      !.late = (Len(calls) = 2)]
        /\ IF IsNil(e)
           THEN live' = [live EXCEPT !.replicas = OtherReplicas, !.doc = 2]
           ELSE UNCHANGED live
    /\ UNCHANGED <<pods, nextUid, nextPod>>
    /\ UNCHANGED OtherVars

(* the first controller calls Upsert once *)
FirstGet ==
    /\ pc = "idle"
    /\ UpsertGet

(* the resource is absent, or an earlier Upsert has created it *)
InitConc ==
    /\ \/ /\ live = NoDeployment
          /\ nextUid = 1
       \/ /\ live \in [present : {TRUE}, ns : {DefaultNamespace}, uid : {1},
                        replicas : ReplicaSpecs, updated : {0}, doc : {0}]
          /\ nextUid = 2
    /\ pods = <<>>
    /\ nextPod = 1
    /\ desc \in Descriptors
    /\ CtlInit

NextConc ==
    \/ FirstGet
    \/ UpsertCreate
    \/ UpsertUpdate
    \/ OtherGet
    \/ OtherCreate
    \/ OtherUpdate

SpecConc == InitConc /\ [][NextConc]_vars

----------------------------------------------------------------------------
(* Properties *)

MutatingNames == {"create", "update", "delete", "deletePod"}
MutatingCalls == {i \in DOMAIN calls : calls[i].call \in MutatingNames}

(* C1: Upsert starts with a get and issues at most one mutating call; once *)
(* it has returned, a get answered NotFound (no resource was there) was    *)
(* followed by exactly one mutating call, a create, and a get that found   *)
(* the resource by exactly one mutating call, an update.                   *)
C1_UpsertDispatch ==
    op = "Upsert" =>
        /\ calls[1].call = "get"
        /\ Cardinality(MutatingCalls) <= 1
        /\ (calls[1].err = "Status404") => (calls[1].uid = 0)
        /\ (calls[1].err = "nil") => (calls[1].uid # 0)
        /\ (pc = "done" /\ calls[1].err = "Status404") =>
              /\ Len(calls) = 2
              /\ calls[2].call = "create"
        /\ (pc = "done" /\ calls[1].err = "nil") =>
              /\ Len(calls) = 2
              /\ calls[2].call = "update"

C1_Witness ==
    /\ op = "Upsert"
    /\ pc = "done"
    /\ calls[1].err = "nil"
    /\ calls[2].call = "update"
    /\ calls[2].ok
    /\ nextUid = 2

(* C2: every document handed to create or update has an empty uid, an      *)
(* empty self link and an empty resource version, whatever the descriptor  *)
(* carried when Upsert was called.                                         *)
C2_SubmittedCleared ==
    \A i \in DOMAIN calls :
        calls[i].call \in {"create", "update"} =>
            /\ calls[i].doc[1].uid = 0
            /\ calls[i].doc[1].selfLink = ""
            /\ calls[i].doc[1].resourceVersion = ""

C2_Witness ==
    /\ op = "Upsert"
    /\ given.uid # 0
    /\ given.selfLink # ""
    /\ given.resourceVersion # ""
    /\ Len(calls) = 2
    /\ calls[2].call = "create"
    /\ calls[2].ok

(* the positions in the control plane's pod list of the pods that are in   *)
(* the deployment's namespace, match the descriptor's selector and carry a *)
(* well-formed reference to kind Deployment and the UID Get returned       *)
OwnedAt(all, deployment) ==
    {i \in DOMAIN all :
        /\ all[i].ns = deployment.ns
        /\ (desc.selector = <<>> \/ all[i].label = desc.selector[1])
        /\ all[i].createdBy # <<>>
        /\ all[i].createdBy[1].valid
        /\ all[i].createdBy[1].kind = "Deployment"
        /\ all[i].createdBy[1].uid = deployment.uid}

IsOwnedSubsequence(found, all, deployment) ==
    LET own == OwnedAt(all, deployment) IN
    /\ Len(found) = Cardinality(own)
    /\ \A i \in own : found[Cardinality({j \in own : j <= i})] = all[i]

Resolved ==
    /\ op = "Delete"
    /\ Len(calls) >= 2
    /\ calls[2].call = "list"
    /\ calls[2].ok

(* C3: once collectPods has returned, its result is exactly the pods of    *)
(* the live deployment's namespace that the selector lists and whose       *)
(* created-by annotation is present, parses and names kind Deployment and  *)
(* the live deployment's UID, in the order of the list.                    *)
C3_OwnedExactly ==
    Resolved =>
        /\ cur.uid = live.uid
        /\ IsOwnedSubsequence(curPods, pods, live)

C3_Witness ==
    /\ Resolved
    /\ Len(pods) = 2
    /\ curPods = <<pods[2]>>
    /\ pods[1].ns = live.ns
    /\ pods[1].label = pods[2].label
    /\ pods[1].createdBy # <<>>
    /\ pods[1].createdBy[1].valid
    /\ pods[1].createdBy[1].kind = "ReplicaSet"
    /\ pods[1].createdBy[1].uid = live.uid

(* the replica count a live deployment is expected to reach *)
ExpectedCount(d) == IF d.replicas = <<>> THEN 1 ELSE d.replicas[1]

AllOwnedRunning(all, d) ==
    \A i \in OwnedAt(all, d) : all[i].phase = "Running"

StatusSucceeds ==
    /\ op' = "Status"
    /\ pc' = "done"
    /\ result'.kind = "nil"
    /\ CtlVars' # CtlVars

(* C4: a step that makes Status return success is the pod check of an      *)
(* attempt whose Get saw the updated-replica counter equal to the expected *)
(* count (the live replicas, 1 if unset) and in which every pod the live   *)
(* deployment owns is Running; the replica comparison passes only on the   *)
(* live values; and a first attempt in which both hold ends Status with    *)
(* success after that one attempt.                                         *)
C4_StatusSuccess ==
    [][/\ StatusSucceeds =>
            /\ pc = "statusList"
            /\ attempts' = attempts
            /\ cur' = cur
            /\ cur.present
            /\ cur.updated = ExpectedCount(cur)
            /\ AllOwnedRunning(pods, cur)
       /\ (pc' = "statusList" /\ CtlVars' # CtlVars) =>
            /\ live.present
            /\ cur' = live
            /\ live.updated = ExpectedCount(live)
       /\ (/\ pc = "statusList"
           /\ attempts = 1
           /\ CtlVars' # CtlVars
           /\ calls'[Len(calls')].ok
           /\ AllOwnedRunning(pods, cur)) =>
            /\ pc' = "done"
            /\ result'.kind = "nil"
            /\ attempts' = 1
            /\ Len(calls') = 2]_vars

C4_Witness ==
    /\ op = "Status"
    /\ pc = "done"
    /\ result.kind = "nil"
    /\ attempts = 1
    /\ cur.replicas = <<2>>
    /\ cur.updated = 2
    /\ Len(curPods) = 2

(* the mismatch the last attempt observed, from what its Get and its       *)
(* collectPods returned                                                    *)
IsLastMismatch(e) ==
    /\ e.kind = "CompareFailed"
    /\ IF cur.updated # ExpectedCount(cur)
       THEN /\ e.what = "replicas"
            /\ e.x = ExpectedCount(cur)
            /\ e.y = cur.updated
       ELSE \E k \in DOMAIN curPods :
            /\ curPods[k].phase # "Running"
            /\ \A j \in 1..(k - 1) : curPods[j].phase = "Running"
            /\ e.what = "pod"
            /\ e.x = curPods[k].name
            /\ e.ph = curPods[k].phase

GetCalls == {i \in DOMAIN calls : calls[i].call = "get"}

(* C5: when every attempt of a Status that was not cut short by            *)
(* cancellation ended in a convergence mismatch, Status has returned after *)
(* exactly as many checks as its attempt budget, and its error is the      *)
(* mismatch of the last attempt.                                           *)
C5_ExhaustedLastMismatch ==
    (/\ op = "Status"
     /\ pc = "done"
     /\ result.kind # "Cancelled"
     /\ \A i \in DOMAIN tried : tried[i].kind = "CompareFailed") =>
        /\ attempts = retryAttempts
        /\ Len(tried) = retryAttempts
        /\ Cardinality(GetCalls) = retryAttempts
        /\ result = tried[Len(tried)]
        /\ IsLastMismatch(result)

StatusRunning ==
    op = "Status" /\ pc \in {"statusGet", "statusList", "sleep"}

(* C5, with termination: the above holds in every state, and a Status in   *)
(* progress always comes to return.                                        *)
C5_StatusTerminates ==
    /\ []C5_ExhaustedLastMismatch
    /\ StatusRunning ~> (pc = "done")

C5_Witness ==
    /\ op = "Status"
    /\ pc = "done"
    /\ retryAttempts = 3
    /\ Len(tried) = 3
    /\ \A i \in DOMAIN tried : tried[i].kind = "CompareFailed"
    /\ tried[1] # tried[3]
    /\ tried[2] # tried[3]
    /\ result = tried[3]

(* C6: retry invokes the action once per attempt, never more often than    *)
(* the budget and never again after a success; with ctx not cancelled it   *)
(* returns success right after the first success, and otherwise returns    *)
(* the error of the last of exactly budget-many failed invocations.        *)
C6_RetryBound ==
    op = "Status" =>
        /\ attempts = Cardinality(GetCalls)
        /\ attempts <= retryAttempts
        /\ Len(tried) = IF pc = "statusList" THEN attempts - 1 ELSE attempts
        /\ \A i \in 1..(Len(tried) - 1) : ~IsNil(tried[i])
        /\ pc # "done" => \A i \in DOMAIN tried : ~IsNil(tried[i])
        /\ (pc = "done" /\ ~cancelled) =>
              IF IsNil(tried[attempts])
              THEN IsNil(result)
              ELSE attempts = retryAttempts /\ result = tried[attempts]

C6_Witness ==
    /\ op = "Status"
    /\ pc = "done"
    /\ ~cancelled
    /\ retryAttempts = 3
    /\ attempts = 2
    /\ ~IsNil(tried[1])
    /\ IsNil(tried[2])
    /\ IsNil(result)

(* C7: once ctx is cancelled while retry waits between two attempts, the   *)
(* controller's next step is to return the cancellation error, with no     *)
(* further invocation of the action and no further remote call; that error *)
(* is none the action or an exhausted budget can produce.                  *)
C7_CancelBetweenAttempts ==
    [][(pc = "sleep" /\ cancelled /\ CtlVars' # CtlVars) =>
            /\ pc' = "done"
            /\ result'.kind = "Cancelled"
            /\ attempts' = attempts
            /\ tried' = tried
            /\ calls' = calls
            /\ \A i \in DOMAIN tried : tried[i].kind # "Cancelled"]_vars

C7_Witness ==
    /\ op = "Status"
    /\ pc = "done"
    /\ result.kind = "Cancelled"
    /\ attempts = 1
    /\ retryAttempts = 3
    /\ ~IsNil(tried[1])

DeleteCallAt(i) ==
    CASE i = 1 -> "get"
      [] i = 2 -> "list"
      [] i = 3 -> "delete"
      [] OTHER -> "deletePod"

(* C8: the remote calls of a Delete are, in this order, the Get of the     *)
(* deployment, the pod List of collectPods, the Delete of the deployment   *)
(* and then the pod Deletes, each made only after the one before           *)
(* succeeded; when the pods are listed the deployment is still there       *)
(* with the UID Get returned.                                              *)
C8_DeleteOrder ==
    op = "Delete" =>
        /\ \A i \in DOMAIN calls : calls[i].call = DeleteCallAt(i)
        /\ \A i \in 2..Len(calls) : calls[i - 1].ok
        /\ Len(calls) >= 2 =>
              /\ cur.present
              /\ cur.uid # 0
              /\ calls[1].uid = cur.uid
              /\ calls[2].uid = cur.uid

C8_Witness ==
    /\ op = "Delete"
    /\ pc = "done"
    /\ Len(calls) = 5
    /\ calls[5].ok
    /\ IsNil(result)

FailedPodDelete(i) ==
    /\ i \in DOMAIN calls
    /\ calls[i].call = "deletePod"
    /\ ~calls[i].ok

(* C9: when the Delete of the i-th resolved pod fails, Delete has returned *)
(* that error and that call is its last one; the i - 1 pods before it were *)
(* deleted and are gone, and the deployment is deleted.                    *)
C9_PodDeleteFails ==
    \A c \in DOMAIN calls :
        (op = "Delete" /\ FailedPodDelete(c)) =>
            LET i == c - 3 IN
            /\ c = Len(calls)
            /\ pc = "done"
            /\ result.kind = calls[c].err
            /\ calls[c].pod = curPods[i].name
            /\ \A k \in 1..(i - 1) :
                /\ calls[3 + k].ok
                /\ calls[3 + k].pod = curPods[k].name
                /\ \A j \in DOMAIN pods : pods[j].name # curPods[k].name
            /\ calls[3].call = "delete"
            /\ calls[3].ok
            /\ ~live.present

C9_Witness ==
    /\ op = "Delete"
    /\ pc = "done"
    /\ Len(curPods) = 2
    /\ Len(calls) = 5
    /\ calls[4].ok
    /\ FailedPodDelete(5)
    /\ Len(pods) = 1
    /\ pods[1].name = curPods[2].name

(* C10: a Delete that follows a Delete which stopped at a failed pod       *)
(* deletion removes the pods that one left over.                           *)
C10_RetryDeletesLeftOver ==
    (op = "Delete" /\ pc = "done" /\ prevLeft # {}) =>
        \A n \in prevLeft : ~HasPod(n)

(* the remote calls of the operation, as the twin records its own *)
CallsSeen == [i \in DOMAIN calls |-> TwinCall(calls[i].call,
                  IF calls[i].ok THEN NoErr ELSE StatusOther, calls[i].pod)]

(* C11: the cascade flag does not influence Delete.  The twin is the same   *)
(* Delete with the other value of cascade, given the same answers of the   *)
(* control plane: at every step both are at the same position, have issued *)
(* the same remote calls with the same outcomes (so deleted the same pods) *)
(* and hold the same result.                                               *)
C11_CascadeIgnored ==
    op = "Delete" =>
        /\ twin.cascade = ~cascade
        /\ twin.pc = pc
        /\ twin.idx = idx
        /\ twin.calls = CallsSeen
        /\ twin.result = result

C11_Witness ==
    /\ op = "Delete"
    /\ pc = "done"
    /\ ~cascade
    /\ twin.cascade
    /\ IsNil(result)
    /\ Len(calls) = 5
    /\ calls[4].call = "deletePod" /\ calls[4].ok
    /\ calls[5].call = "deletePod" /\ calls[5].ok
    /\ pods = <<>>

(* C12: Status called with maxAttempts = 0 and/or period = 0 behaves as    *)
(* Status called with the defaults written out: the twin, given the same   *)
(* answers, has the same budget and period, has made the same attempts     *)
(* with the same outcomes, is at the same position and holds the same      *)
(* result.                                                                 *)
C12_DefaultsAsExplicit ==
    op = "Status" =>
        /\ twin.times = retryAttempts
        /\ twin.period = retryPeriod
        /\ twin.attempts = attempts
        /\ twin.tried = tried
        /\ twin.pc = pc
        /\ twin.result = result
        /\ (twin.n = 0) => (retryAttempts = DefaultRetryAttempts)
        /\ (twin.d = 0) => (retryPeriod = DefaultRetryPeriod)

C12_Witness ==
    /\ op = "Status"
    /\ pc = "done"
    /\ twin.n = 0
    /\ twin.d = 0
    /\ attempts = DefaultRetryAttempts
    /\ Len(tried) = DefaultRetryAttempts
    /\ ~IsNil(result)

(* C13: a Get of a Status attempt that reports not found is fatal: Status  *)
(* has returned that error, and the Get is the last remote call.           *)
C13_NotFoundFatal ==
    op = "Status" =>
        \A i \in DOMAIN calls :
            (calls[i].call = "get" /\ calls[i].err = "Status404") =>
                /\ pc = "done"
                /\ i = Len(calls)
                /\ result.kind = "Status404"

(* the pods of the control plane that carry a reference to the deployment  *)
(* the last Get returned                                                   *)
CreatedByCur ==
    {i \in DOMAIN pods : CreatedByThis(pods[i], cur)}

(* C14: once Delete has returned success, no pod created by the deleted    *)
(* deployment remains, whatever the control plane did during the Delete.   *)
C14_NoPodSurvives ==
    (op = "Delete" /\ pc = "done" /\ IsNil(result)) => CreatedByCur = {}

(* both Upserts have returned, each after a create or an update, and the   *)
(* control plane answered every call (no transport failure)                *)
BothWrote ==
    /\ op = "Upsert" /\ pc = "done" /\ Len(calls) = 2
    /\ other.pc = "done" /\ Len(other.calls) = 2
    /\ \A i \in 1..2 : calls[i].err # "Status500"
    /\ \A i \in 1..2 : other.calls[i].err # "Status500"

LastWriter == IF other.late THEN 2 ELSE 1
FirstWrite == IF other.late THEN OtherCall(calls[2].call, Err(calls[2].err))
              ELSE other.calls[2]
LastWrite == IF other.late THEN other.calls[2]
             ELSE OtherCall(calls[2].call, Err(calls[2].err))
LastResult == IF other.late THEN other.result ELSE result

(* C15: of two Upserts running concurrently on the same name, the one      *)
(* whose create or update was issued last wins: once both have returned,   *)
(* the control plane holds its document.                                   *)
C15_LastWriterWins ==
    BothWrote => (live.present /\ live.doc = LastWriter)

(* C15, amended: the last writer wins when its write is an update; when    *)
(* both Upserts found the resource absent the first create wins: the later *)
(* create is answered with a conflict, its Upsert returns AlreadyExists    *)
(* and the control plane keeps the first document.                         *)
C15_LastUpdateWins ==
    BothWrote =>
        /\ live.present
        /\ FirstWrite.ok
        /\ (LastWrite.call = "update") =>
              /\ LastWrite.ok
              /\ IsNil(LastResult)
              /\ live.doc = LastWriter
        /\ (LastWrite.call = "create") =>
              /\ FirstWrite.call = "create"
              /\ LastWrite.err = "Status409"
              /\ LastResult.kind = "AlreadyExists"
              /\ live.doc = 3 - LastWriter

C15_Witness ==
    /\ BothWrote
    /\ FirstWrite.call = "create"
    /\ LastWrite.call = "create"
    /\ LastResult.kind = "AlreadyExists"
    /\ other.late
    /\ live.doc = 1

(* The state of the resource, as the control plane shows it: Absent until *)
(* it is first created, Deleted when it is gone after that, Converged when *)
(* the counter has reached the expected count and every pod it created is  *)
(* Running, Pending otherwise.                                             *)
RState ==
    IF ~live.present
    THEN IF nextUid > 1 THEN "Deleted" ELSE "Absent"
    ELSE IF /\ live.updated = ExpectedReplicas(live)
            /\ \A i \in DOMAIN pods :
                  CreatedByThis(pods[i], live) => pods[i].phase = PodRunning
         THEN "Converged"
         ELSE "Pending"

DeleteReturns ==
    /\ op' = "Delete"
    /\ pc # "done"
    /\ pc' = "done"

(* C16: a Delete call that returns success takes the resource to Deleted   *)
(* from every state, and Deleted is terminal: no step of Upsert, Status or *)
(* Delete takes the resource out of it.                                    *)
C16_DeletedTerminal ==
    [][/\ (RState = "Deleted") => (RState' = "Deleted")
       /\ (op = "Delete" /\ DeleteReturns /\ IsNil(result')) =>
            (RState' = "Deleted")]_vars

(* C16, amended: a Delete that returns success leaves the resource         *)
(* Deleted, from Pending and from Converged; the resource leaves Deleted   *)
(* only by the create of an Upsert, which makes it anew under a fresh UID; *)
(* no step of Status or Delete takes it out of Deleted.                    *)
C16_DeletedUntilCreate ==
    [][/\ (RState = "Deleted" /\ RState' # "Deleted") =>
            /\ op = "Upsert"
            /\ pc = "upsertCreate"
            /\ calls'[Len(calls')].call = "create"
            /\ calls'[Len(calls')].ok
            /\ live'.present
            /\ live'.uid = nextUid
       /\ (op = "Delete" /\ DeleteReturns /\ IsNil(result')) =>
            /\ cur.present
            /\ RState' = "Deleted"]_vars

C16_Witness ==
    /\ op = "Upsert"
    /\ pc = "done"
    /\ Len(calls) = 2
    /\ calls[2].call = "create"
    /\ calls[2].ok
    /\ live.present
    /\ live.uid = 2
    /\ RState = "Pending"

Ready == {"idle", "done"}

(* C17: when the Get of Upsert fails with an error other than not found,   *)
(* Upsert returns that error after the Get alone: neither create nor       *)
(* update is issued, and the step leaves the control plane as it was.      *)
C17_GetErrorReturned ==
    /\ [](op = "Upsert" =>
            (calls[1].err \notin {"nil", "Status404"} =>
                /\ pc = "done"
                /\ Len(calls) = 1
                /\ MutatingCalls = {}
                /\ result.kind = calls[1].err))
    /\ [][(pc \in Ready /\ op' = "Upsert" /\ CtlVars' # CtlVars) =>
            PlaneVars' = PlaneVars]_vars

C17_Witness ==
    /\ op = "Upsert"
    /\ pc = "done"
    /\ calls[1].err = "Status500"
    /\ result.kind = "Status500"
    /\ live.present
    /\ live.updated = 1

(* the first remote call of the operation that failed; 0 if none did *)
FirstFailed ==
    IF \A i \in DOMAIN calls : calls[i].ok THEN 0
    ELSE CHOOSE i \in DOMAIN calls :
            ~calls[i].ok /\ \A j \in 1..(i - 1) : calls[j].ok

(* C18: when the Get of Delete fails (not found included) or the listing   *)
(* of the pods fails, Delete returns that error at once: no delete of the  *)
(* deployment or of a pod is issued, and the control plane is as it was.   *)
C18_DeleteFailsEarly ==
    /\ [](op = "Delete" =>
            ((FirstFailed # 0 /\ calls[FirstFailed].call \in {"get", "list"}) =>
                /\ pc = "done"
                /\ Len(calls) = FirstFailed
                /\ MutatingCalls = {}
                /\ result.kind = calls[FirstFailed].err))
    /\ [][(/\ pc \in Ready \cup {"deleteList"}
           /\ op' = "Delete"
           /\ CtlVars' # CtlVars) => PlaneVars' = PlaneVars]_vars

C18_Witness ==
    /\ op = "Delete"
    /\ pc = "done"
    /\ Len(calls) = 2
    /\ calls[2].call = "list"
    /\ ~calls[2].ok
    /\ result.kind = "Status500"
    /\ live.present
    /\ Len(pods) = 1

(* C19: Status only observes: the remote calls it issues are Gets of the   *)
(* deployment and Lists of pods, and no step of Status changes the         *)
(* deployment or the pods of the control plane.                            *)
C19_StatusObservesOnly ==
    /\ [](op = "Status" =>
            \A i \in DOMAIN calls : calls[i].call \in {"get", "list"})
    /\ [][(op' = "Status" /\ CtlVars' # CtlVars) =>
            PlaneVars' = PlaneVars]_vars

C19_Witness ==
    /\ op = "Status"
    /\ pc = "done"
    /\ Len(calls) = 4
    /\ calls[4].call = "list"
    /\ ~IsNil(result)
    /\ Len(pods) = 2
    /\ pods[1].phase = "Pending"

(* C20: the success of Status does not depend on how many pods the         *)
(* deployment owns: an attempt whose Get saw the counter equal to the      *)
(* expected count and whose List was answered ends Status with success     *)
(* whenever every owned pod is Running, also with fewer owned pods than    *)
(* expected replicas and with none.                                        *)
C20_FewerPodsSucceed ==
    [][(/\ op = "Status"
        /\ pc = "statusList"
        /\ CtlVars' # CtlVars
        /\ calls'[Len(calls')].ok
        /\ AllOwnedRunning(pods, cur)
        /\ Cardinality(OwnedAt(pods, cur)) < ExpectedCount(cur)) =>
            /\ pc' = "done"
            /\ IsNil(result')
            /\ Len(curPods') = Cardinality(OwnedAt(pods, cur))]_vars

C20_Witness ==
    /\ op = "Status"
    /\ pc = "done"
    /\ IsNil(result)
    /\ cur.replicas = <<2>>
    /\ cur.updated = 2
    /\ curPods = <<>>
    /\ pods = <<>>

====
